---- MODULE Spec2Model ----
(***************************************************************************)
(* Model of controllers/genreController.js: the Genre request handlers of   *)
(* the library catalog (list, detail, create, delete, update) over the      *)
(* Genre and Book collections.  Strings are sequences of one-character      *)
(* strings so that trim, isLength and escape are computed, not assumed.     *)
(***************************************************************************)
EXTENDS Integers, Sequences, FiniteSets, TLC

\* ---------------------------------------------------------------- bounds
MaxLen == 3
MaxCore == 2
MaxBooks == 1
MaxRequests == 3

\* ------------------------------------------------------------ strings
Alphabet == {"a", " ", "<"}

RECURSIVE StringsUpTo(_)
StringsUpTo(n) ==
  IF n = 0 THEN {<< >>}
  ELSE LET S == StringsUpTo(n - 1)
       IN S \cup {Append(s, c) : s \in {t \in S : Len(t) = n - 1}, c \in Alphabet}

Spaces(n) == [i \in 1 .. n |-> " "]

\* the raw name fields submitted: at most MaxLen characters, of which at most
\* MaxCore lie between the leading and the trailing blanks
RawNames ==
  {s \in {Spaces(l) \o c \o Spaces(t) : l \in 0 .. MaxLen, t \in 0 .. MaxLen,
                                         c \in StringsUpTo(MaxCore)} :
     Len(s) <= MaxLen}

Whitespace == {" ", "\t", "\n", "\r"}

RECURSIVE LTrim(_)
LTrim(s) == IF s # << >> /\ Head(s) \in Whitespace THEN LTrim(Tail(s)) ELSE s

RECURSIVE RTrim(_)
RTrim(s) ==
  IF s # << >> /\ s[Len(s)] \in Whitespace THEN RTrim(SubSeq(s, 1, Len(s) - 1)) ELSE s

\* .trim() of the validation chain
Trim(s) == RTrim(LTrim(s))

MinLength == 2

\* .isLength({ min: 2 })
IsLength(s) == Len(s) >= MinLength

\* validator's escape table, for the characters that can occur here (the two
\* quotes, the backslash and the backtick are escaped too, and are not in Alphabet)
EscapeChar(c) ==
  CASE c = "&" -> <<"&", "a", "m", "p", ";">>
    [] c = "<" -> <<"&", "l", "t", ";">>
    [] c = ">" -> <<"&", "g", "t", ";">>
    [] c = "/" -> <<"&", "#", "x", "2", "F", ";">>
    [] OTHER -> <<c>>

RECURSIVE Escape(_)
\* .escape() of the validation chain
Escape(s) == IF s = << >> THEN << >> ELSE EscapeChar(Head(s)) \o Escape(Tail(s))

LengthMsg == "Genre name must contain at least 2 characters"

\* the chain without its trim
RunChain_NoTrim(raw) ==
  [value |-> Escape(raw), errors |-> IF IsLength(raw) THEN << >> ELSE <<LengthMsg>>]

\* The validation chain body(name, msg).trim().isLength({min: 2}).escape()
\* run on the raw field: sanitizers rewrite the value in order, the validator
\* tests the value as it is at its place in the chain.
RunChain(raw) ==
  LET t == Trim(raw)
  IN [value |-> Escape(t), errors |-> IF IsLength(t) THEN << >> ELSE <<LengthMsg>>]

\* the field escaped but not trimmed
genre_create_post_body_NoTrim(raw) == [RunChain(raw) EXCEPT !.value = Escape(raw)]

\* What the final middleware of genre_create_post sees: the chain is an
\* element of the exported array, so it has run before the handler.
genre_create_post_body(raw) == RunChain(raw)

\* What the final middleware of genre_update_post sees: the exported array is
\* [ (chain, handler) ], a parenthesised comma expression whose value is the
\* handler alone, so no chain is registered: the field is the raw input and
\* validationResult(req) is empty.
genre_update_post_body(raw) == [value |-> raw, errors |-> << >>]

\* ------------------------------------------------------------- state
VARIABLES
  genres,    \* the Genre collection: a function from the ids in the store to names
  books,     \* the Book collection: a set of [id, genre] documents
  nextId,    \* the next fresh Genre id (ids are never reused)
  reqs,      \* the requests: what each has read, sent and still has to do
  served,    \* the number of requests taken so far
  removed    \* history: the ids of the Genres that a delete has taken out of the store

vars == <<genres, books, nextId, reqs, served, removed>>

\* the ids a request may name: a create-submit takes one fresh id, so no more
\* than MaxRequests ids are ever assigned
Ids == 1 .. MaxRequests
Slots == {1, 2}

NoId == 0
Null == [id |-> NoId, name |-> << >>]
NoStatus == 0
NoError == [message |-> "", status |-> NoStatus]
\* the error a failing store call hands to its callback
StoreError == [message |-> "store error", status |-> NoStatus]
\* new Error(Genre not found) with err.status = 404
NotFound == [message |-> "Genre not found", status |-> 404]

\* a Genre document as the store returns it
GenreDoc(id) == [id |-> id, name |-> genres[id]]

\* Genre.findById(id): the document, or null
FindById(id) == IF id \in DOMAIN genres THEN GenreDoc(id) ELSE Null

\* a lookup that never finds a Genre
FindOne_NoMatch(name) == {}

\* Genre.findOne({ name }): the documents the query may return (any one Genre
\* of that name; none when the set is empty)
FindOne(name) == {GenreDoc(id) : id \in {i \in DOMAIN genres : genres[i] = name}}

\* Book.find({ genre: id })
BookFind(id) == {b \in books : b.genre = id}

\* the url virtual of the Genre model: /catalog/genre/{id}
Url(g) == <<"catalog", "genre", g.id>>

\* the id a detail route /catalog/genre/:id takes from a location
ParamId(loc) == loc[3]

GenresUrl == <<"catalog", "genres">>

\* character codes, for the store's ascending sort on name
Code(c) ==
  CASE c = " " -> 32 [] c = "#" -> 35 [] c = "&" -> 38 [] c = "/" -> 47
    [] c = "2" -> 50 [] c = ";" -> 59 [] c = "<" -> 60 [] c = ">" -> 62
    [] c = "F" -> 70 [] c = "a" -> 97 [] c = "g" -> 103 [] c = "l" -> 108
    [] c = "m" -> 109 [] c = "p" -> 112 [] c = "t" -> 116 [] c = "x" -> 120
    [] OTHER -> 127

RECURSIVE NameLeq(_, _)
NameLeq(s, t) ==
  IF s = << >> THEN TRUE
  ELSE IF t = << >> THEN FALSE
  ELSE IF Head(s) = Head(t) THEN NameLeq(Tail(s), Tail(t))
  ELSE Code(Head(s)) < Code(Head(t))

\* the find without its sort: the Genres in any order
FindSorted_Unsorted ==
  LET n == Cardinality(DOMAIN genres)
  IN {[i \in 1 .. n |-> GenreDoc(f[i])] :
        f \in {g \in [1 .. n -> DOMAIN genres] :
                 \A i, j \in 1 .. n : i # j => g[i] # g[j]}}

\* Genre.find().sort([[name, ascending]]): the sequences the query may return
\* (Genres of equal name come in either order)
FindSorted ==
  LET n == Cardinality(DOMAIN genres)
  IN {[i \in 1 .. n |-> GenreDoc(f[i])] :
        f \in {g \in [1 .. n -> DOMAIN genres] :
                 /\ \A i, j \in 1 .. n : i # j => g[i] # g[j]
                 /\ \A i \in 1 .. n - 1 : NameLeq(genres[g[i]], genres[g[i + 1]])}}

\* ---------------------------------------------------------- requests
Idle ==
  [handler |-> "idle", id |-> NoId, raw |-> << >>, genre |-> Null,
   errors |-> << >>, pc |-> "done", pending |-> {}, found |-> Null,
   genre_books |-> {}, responses |-> << >>, nexts |-> << >>, thrown |-> FALSE]

NewReq(h, id) == [Idle EXCEPT !.handler = h, !.id = id]

Response ==
  [kind |-> "render", view |-> "", title |-> "", genre |-> Null,
   genre_books |-> {}, genre_list |-> << >>, errors |-> << >>, location |-> << >>]

\* res.render(view, context)
Render(q, view, ctx) == [q EXCEPT !.responses = Append(@, [ctx EXCEPT !.view = view])]

\* res.redirect(location)
Redirect(q, loc) ==
  [q EXCEPT !.responses = Append(@, [Response EXCEPT !.kind = "redirect", !.location = loc])]

\* next(err)
NextErr(q, err) == [q EXCEPT !.nexts = Append(@, err)]

\* the handler (or its last callback) returns
Return(q) == [q EXCEPT !.pc = "done", !.pending = {}]

\* a new request is taken when the previous one of the slot is over
CanStart(r) == reqs[r].pc = "done" /\ served < MaxRequests

Init ==
  /\ genres = << >>
  /\ books = {}
  /\ nextId = 1
  /\ reqs = [r \in Slots |-> Idle]
  /\ served = 0
  /\ removed = {}


\* async.parallel: task t of request q has called back (q already holds its
\* result).  The first error calls the final callback at once with that
\* error; otherwise the final callback is called, with no error, when the
\* last task has called back.
Parallel(q, t, ok) ==
  [q |-> [q EXCEPT !.pending = IF ok THEN @ \ {t} ELSE {}],
   final |-> ~ok \/ q.pending = {t},
   err |-> IF ok THEN NoError ELSE StoreError]

\* ---------------------------------------------------------- genre_list
genre_list(r) ==
  /\ CanStart(r)
  /\ reqs' = [reqs EXCEPT ![r] = [NewReq("genre_list", NoId) EXCEPT !.pc = "find"]]
  /\ UNCHANGED <<genres, books, nextId, removed>>
  /\ served' = served + 1

genre_list_exec(r, ok) ==
  /\ reqs[r].handler = "genre_list" /\ reqs[r].pc = "find"
  /\ \E list_genres \in FindSorted :
       reqs' = [reqs EXCEPT ![r] =
                  IF ~ok THEN Return(NextErr(reqs[r], StoreError))
                  ELSE Return(Render(reqs[r], "genre_list",
                         [Response EXCEPT !.title = "Genre List", !.genre_list = list_genres]))]
  /\ UNCHANGED <<genres, books, nextId, served, removed>>

\* -------------------------------------------------------- genre_detail
genre_detail_cb(q, err) ==
  IF err # NoError THEN Return(NextErr(q, err))
  ELSE IF q.found = Null THEN Return(NextErr(q, NotFound))
  ELSE Return(Render(q, "genre_detail",
         [Response EXCEPT !.title = "Genre Detail", !.genre = q.found,
                          !.genre_books = q.genre_books]))

genre_detail(r, id) ==
  /\ CanStart(r)
  /\ reqs' = [reqs EXCEPT ![r] = [NewReq("genre_detail", id) EXCEPT
                                    !.pc = "parallel", !.pending = {"genre", "genre_books"}]]
  /\ UNCHANGED <<genres, books, nextId, removed>>
  /\ served' = served + 1

genre_detail_genre(r, ok) ==
  /\ reqs[r].handler = "genre_detail" /\ "genre" \in reqs[r].pending
  /\ LET p == Parallel([reqs[r] EXCEPT !.found = IF ok THEN FindById(reqs[r].id) ELSE Null],
                        "genre", ok)
     IN reqs' = [reqs EXCEPT ![r] = IF p.final THEN genre_detail_cb(p.q, p.err) ELSE p.q]
  /\ UNCHANGED <<genres, books, nextId, served, removed>>

genre_detail_genre_books(r, ok) ==
  /\ reqs[r].handler = "genre_detail" /\ "genre_books" \in reqs[r].pending
  /\ LET p == Parallel([reqs[r] EXCEPT !.genre_books = IF ok THEN BookFind(reqs[r].id) ELSE {}],
                        "genre_books", ok)
     IN reqs' = [reqs EXCEPT ![r] = IF p.final THEN genre_detail_cb(p.q, p.err) ELSE p.q]
  /\ UNCHANGED <<genres, books, nextId, served, removed>>

\* ---------------------------------------------------- genre_create_get
genre_create_get(r) ==
  /\ CanStart(r)
  /\ reqs' = [reqs EXCEPT ![r] =
                Return(Render(NewReq("genre_create_get", NoId), "genre_form",
                              [Response EXCEPT !.title = "Create Genre"]))]
  /\ UNCHANGED <<genres, books, nextId, removed>>
  /\ served' = served + 1

\* --------------------------------------------------- genre_create_post
\* new Genre({ name: req.body.name }): the document gets its fresh id here
genre_create_post(r, raw) ==
  /\ CanStart(r)
  /\ LET b == genre_create_post_body(raw)
         genre == [id |-> nextId, name |-> b.value]
         q == [NewReq("genre_create_post", NoId) EXCEPT
                 !.raw = raw, !.genre = genre, !.errors = b.errors]
     IN reqs' = [reqs EXCEPT ![r] =
                   IF b.errors # << >>
                   THEN Return(Render(q, "genre_form",
                          [Response EXCEPT !.title = "Create Genre", !.genre = genre,
                                           !.errors = b.errors]))
                   ELSE [q EXCEPT !.pc = "findOne"]]
  /\ nextId' = nextId + 1
  /\ UNCHANGED <<genres, books, removed>>
  /\ served' = served + 1

genre_create_post_findOne(r, ok) ==
  /\ reqs[r].handler = "genre_create_post" /\ reqs[r].pc = "findOne"
  /\ LET q == reqs[r]
     IN IF ~ok THEN reqs' = [reqs EXCEPT ![r] = Return(NextErr(q, StoreError))]
        ELSE IF FindOne(q.genre.name) # {}
        THEN \E found_genre \in FindOne(q.genre.name) :
               reqs' = [reqs EXCEPT ![r] =
                          Return(Redirect([q EXCEPT !.found = found_genre], Url(found_genre)))]
        ELSE reqs' = [reqs EXCEPT ![r] = [q EXCEPT !.pc = "save"]]
  /\ UNCHANGED <<genres, books, nextId, served, removed>>

\* a save that the store refuses to apply when a Genre of the name is there
Save_IfAbsent(genre) ==
  IF \E i \in DOMAIN genres : genres[i] = genre.name
  THEN genres
  ELSE (genre.id :> genre.name) @@ genres

\* genre.save(): the store after the insert
Save(genre) == (genre.id :> genre.name) @@ genres

genre_create_post_save(r, ok) ==
  /\ reqs[r].handler = "genre_create_post" /\ reqs[r].pc = "save"
  /\ LET q == reqs[r]
     IN IF ~ok
        THEN /\ reqs' = [reqs EXCEPT ![r] = Return(NextErr(q, StoreError))]
             /\ genres' = genres
        ELSE /\ reqs' = [reqs EXCEPT ![r] = Return(Redirect(q, Url(q.genre)))]
             /\ genres' = Save(q.genre)
  /\ UNCHANGED <<books, nextId, served, removed>>


\* ---------------------------------------------------- genre_delete_get
\* a missing Genre redirects and, with no return, goes on to render
genre_delete_get_cb(q, err) ==
  IF err # NoError THEN Return(NextErr(q, err))
  ELSE LET q1 == IF q.found = Null THEN Redirect(q, GenresUrl) ELSE q
       IN Return(Render(q1, "genre_delete",
            [Response EXCEPT !.title = "Delete Genre", !.genre = q.found,
                             !.genre_books = q.genre_books]))

genre_delete_get(r, id) ==
  /\ CanStart(r)
  /\ reqs' = [reqs EXCEPT ![r] = [NewReq("genre_delete_get", id) EXCEPT
                                    !.pc = "parallel", !.pending = {"genre", "genres_books"}]]
  /\ UNCHANGED <<genres, books, nextId, removed>>
  /\ served' = served + 1

\* the read of the Genre taking the Genre out of the store
genre_delete_get_genre_Removes(r, ok) ==
  /\ reqs[r].handler = "genre_delete_get" /\ "genre" \in reqs[r].pending
  /\ LET p == Parallel([reqs[r] EXCEPT !.found = IF ok THEN FindById(reqs[r].id) ELSE Null],
                        "genre", ok)
     IN reqs' = [reqs EXCEPT ![r] = IF p.final THEN genre_delete_get_cb(p.q, p.err) ELSE p.q]
  /\ genres' = [i \in DOMAIN genres \ {reqs[r].id} |-> genres[i]]
  /\ UNCHANGED <<books, nextId, served, removed>>

genre_delete_get_genre(r, ok) ==
  /\ reqs[r].handler = "genre_delete_get" /\ "genre" \in reqs[r].pending
  /\ LET p == Parallel([reqs[r] EXCEPT !.found = IF ok THEN FindById(reqs[r].id) ELSE Null],
                        "genre", ok)
     IN reqs' = [reqs EXCEPT ![r] = IF p.final THEN genre_delete_get_cb(p.q, p.err) ELSE p.q]
  /\ UNCHANGED <<genres, books, nextId, served, removed>>

genre_delete_get_genres_books(r, ok) ==
  /\ reqs[r].handler = "genre_delete_get" /\ "genres_books" \in reqs[r].pending
  /\ LET p == Parallel([reqs[r] EXCEPT !.genre_books = IF ok THEN BookFind(reqs[r].id) ELSE {}],
                        "genres_books", ok)
     IN reqs' = [reqs EXCEPT ![r] = IF p.final THEN genre_delete_get_cb(p.q, p.err) ELSE p.q]
  /\ UNCHANGED <<genres, books, nextId, served, removed>>

\* --------------------------------------------------- genre_delete_post
\* the final callback without its test on the Books read
genre_delete_post_cb_NoGuard(q, err) ==
  IF err # NoError THEN Return(NextErr(q, err))
  ELSE [q EXCEPT !.pc = "findByIdAndRemove"]

\* the final callback going on in spite of the error
genre_delete_post_cb_IgnoreErr(q, err) ==
  IF Cardinality(q.genre_books) > 0
  THEN Return(Render(q, "genre_delete",
         [Response EXCEPT !.title = "Delete Genre", !.genre = q.found,
                          !.genre_books = q.genre_books]))
  ELSE [q EXCEPT !.pc = "findByIdAndRemove"]

\* the final callback answering a missing Genre with the not-found error
genre_delete_post_cb_NotFound(q, err) ==
  IF err # NoError THEN Return(NextErr(q, err))
  ELSE IF q.found = Null THEN Return(NextErr(q, NotFound))
  ELSE IF Cardinality(q.genre_books) > 0
  THEN Return(Render(q, "genre_delete",
         [Response EXCEPT !.title = "Delete Genre", !.genre = q.found,
                          !.genre_books = q.genre_books]))
  ELSE [q EXCEPT !.pc = "findByIdAndRemove"]

genre_delete_post_cb(q, err) ==
  IF err # NoError THEN Return(NextErr(q, err))
  ELSE IF Cardinality(q.genre_books) > 0
  THEN Return(Render(q, "genre_delete",
         [Response EXCEPT !.title = "Delete Genre", !.genre = q.found,
                          !.genre_books = q.genre_books]))
  ELSE [q EXCEPT !.pc = "findByIdAndRemove"]

\* the id is req.body.genreid
genre_delete_post(r, genreid) ==
  /\ CanStart(r)
  /\ reqs' = [reqs EXCEPT ![r] = [NewReq("genre_delete_post", genreid) EXCEPT
                                    !.pc = "parallel", !.pending = {"genre", "genres_books"}]]
  /\ UNCHANGED <<genres, books, nextId, removed>>
  /\ served' = served + 1

genre_delete_post_genre(r, ok) ==
  /\ reqs[r].handler = "genre_delete_post" /\ "genre" \in reqs[r].pending
  /\ LET p == Parallel([reqs[r] EXCEPT !.found = IF ok THEN FindById(reqs[r].id) ELSE Null],
                        "genre", ok)
     IN reqs' = [reqs EXCEPT ![r] = IF p.final THEN genre_delete_post_cb(p.q, p.err) ELSE p.q]
  /\ UNCHANGED <<genres, books, nextId, served, removed>>

genre_delete_post_genres_books(r, ok) ==
  /\ reqs[r].handler = "genre_delete_post" /\ "genres_books" \in reqs[r].pending
  /\ LET p == Parallel([reqs[r] EXCEPT !.genre_books = IF ok THEN BookFind(reqs[r].id) ELSE {}],
                        "genres_books", ok)
     IN reqs' = [reqs EXCEPT ![r] = IF p.final THEN genre_delete_post_cb(p.q, p.err) ELSE p.q]
  /\ UNCHANGED <<genres, books, nextId, served, removed>>

\* a delete that removes nothing
FindByIdAndRemove_Nothing(id) == genres

\* a delete that the store refuses while a Book references the Genre
FindByIdAndRemove_Guarded(id) ==
  IF BookFind(id) # {} THEN genres ELSE [i \in DOMAIN genres \ {id} |-> genres[i]]

\* Genre.findByIdAndRemove(id): the store after the delete
FindByIdAndRemove(id) == [i \in DOMAIN genres \ {id} |-> genres[i]]

\* a delete that also removes the Books referencing the Genre
genre_delete_post_remove_Cascade(r, ok) ==
  /\ reqs[r].handler = "genre_delete_post" /\ reqs[r].pc = "findByIdAndRemove"
  /\ LET q == reqs[r]
     IN IF ~ok
        THEN /\ reqs' = [reqs EXCEPT ![r] = Return(NextErr(q, StoreError))]
             /\ genres' = genres
             /\ books' = books
        ELSE /\ reqs' = [reqs EXCEPT ![r] = Return(Redirect(q, GenresUrl))]
             /\ genres' = FindByIdAndRemove(q.id)
             /\ books' = {b \in books : b.genre # q.id}
  /\ removed' = removed \cup (DOMAIN genres \ DOMAIN genres')
  /\ UNCHANGED <<nextId, served>>

genre_delete_post_remove(r, ok) ==
  /\ reqs[r].handler = "genre_delete_post" /\ reqs[r].pc = "findByIdAndRemove"
  /\ LET q == reqs[r]
     IN IF ~ok
        THEN /\ reqs' = [reqs EXCEPT ![r] = Return(NextErr(q, StoreError))]
             /\ genres' = genres
        ELSE /\ reqs' = [reqs EXCEPT ![r] = Return(Redirect(q, GenresUrl))]
             /\ genres' = FindByIdAndRemove(q.id)
  /\ removed' = removed \cup (DOMAIN genres \ DOMAIN genres')
  /\ UNCHANGED <<books, nextId, served>>

\* ---------------------------------------------------- genre_update_get
\* the final callback without its test for a missing Genre
genre_update_get_cb_NoNullTest(q, err) ==
  IF err # NoError THEN Return(NextErr(q, err))
  ELSE Return(Render(q, "genre_form",
         [Response EXCEPT !.title = "Update Genre", !.genre = q.found]))

genre_update_get_cb(q, err) ==
  IF err # NoError THEN Return(NextErr(q, err))
  ELSE IF q.found = Null THEN Return(NextErr(q, NotFound))
  ELSE Return(Render(q, "genre_form",
         [Response EXCEPT !.title = "Update Genre", !.genre = q.found]))

genre_update_get(r, id) ==
  /\ CanStart(r)
  /\ reqs' = [reqs EXCEPT ![r] = [NewReq("genre_update_get", id) EXCEPT
                                    !.pc = "parallel", !.pending = {"genre"}]]
  /\ UNCHANGED <<genres, books, nextId, removed>>
  /\ served' = served + 1

genre_update_get_genre(r, ok) ==
  /\ reqs[r].handler = "genre_update_get" /\ "genre" \in reqs[r].pending
  /\ LET p == Parallel([reqs[r] EXCEPT !.found = IF ok THEN FindById(reqs[r].id) ELSE Null],
                        "genre", ok)
     IN reqs' = [reqs EXCEPT ![r] = IF p.final THEN genre_update_get_cb(p.q, p.err) ELSE p.q]
  /\ UNCHANGED <<genres, books, nextId, served, removed>>

\* --------------------------------------------------- genre_update_post
\* the candidate built without _id: a new id is assigned
UpdateCandidate_NewId(id, name) == [id |-> nextId, name |-> name]

\* new Genre({ name: req.body.name, _id: req.params.id })
UpdateCandidate(id, name) == [id |-> id, name |-> name]

genre_update_post(r, id, raw) ==
  /\ CanStart(r)
  /\ LET b == genre_update_post_body(raw)
         genre == UpdateCandidate(id, b.value)
         q == [NewReq("genre_update_post", id) EXCEPT
                 !.raw = raw, !.genre = genre, !.errors = b.errors]
     IN reqs' = [reqs EXCEPT ![r] =
                   IF b.errors # << >>
                   THEN Return(Render(q, "genre_form",
                          [Response EXCEPT !.title = "Create Genre", !.genre = genre,
                                           !.errors = b.errors]))
                   ELSE [q EXCEPT !.pc = "findByIdAndUpdate"]]
  /\ UNCHANGED <<genres, books, nextId, removed>>
  /\ served' = served + 1

\* Genre.findByIdAndUpdate(id, genre, {}): the store after the update (no
\* upsert: an id that is not in the store changes nothing)
FindByIdAndUpdate(id, genre) ==
  IF id \in DOMAIN genres
  THEN (genre.id :> genre.name) @@ [i \in DOMAIN genres \ {id} |-> genres[i]]
  ELSE genres

\* the callback gets the document found (null when there is none); reading
\* thegenre.url of null throws out of the callback
genre_update_post_update(r, ok) ==
  /\ reqs[r].handler = "genre_update_post" /\ reqs[r].pc = "findByIdAndUpdate"
  /\ LET q == reqs[r]
         thegenre == FindById(q.id)
     IN IF ~ok
        THEN /\ reqs' = [reqs EXCEPT ![r] = Return(NextErr(q, StoreError))]
             /\ genres' = genres
        ELSE /\ reqs' = [reqs EXCEPT ![r] =
                  IF thegenre = Null
                  THEN Return([q EXCEPT !.thrown = TRUE])
                  ELSE Return(Redirect([q EXCEPT !.found = thegenre], Url(thegenre)))]
             /\ genres' = FindByIdAndUpdate(q.id, q.genre)
  /\ UNCHANGED <<books, nextId, served, removed>>

\* ---------------------------------------------------------- environment
\* the Book collection belongs to another component, which may add a Book
\* referencing any Genre id at any time
BookInsert(g) ==
  /\ Cardinality(books) < MaxBooks
  /\ books' = books \cup {[id |-> Cardinality(books) + 1, genre |-> g]}
  /\ UNCHANGED <<genres, nextId, reqs, served, removed>>

\* ------------------------------------------------------- specification
\* the steps of a create-submit
CreateSubmit(r) ==
  \/ \E raw \in RawNames : genre_create_post(r, raw)
  \/ \E ok \in BOOLEAN : genre_create_post_findOne(r, ok)
  \/ \E ok \in BOOLEAN : genre_create_post_save(r, ok)

\* the steps of a delete-submit
DeleteSubmit(r) ==
  \/ \E id \in Ids : genre_delete_post(r, id)
  \/ \E ok \in BOOLEAN : genre_delete_post_genre(r, ok)
  \/ \E ok \in BOOLEAN : genre_delete_post_genres_books(r, ok)
  \/ \E ok \in BOOLEAN : genre_delete_post_remove(r, ok)

\* the steps of an update-submit
UpdateSubmit(r) ==
  \/ \E id \in Ids, raw \in RawNames : genre_update_post(r, id, raw)
  \/ \E ok \in BOOLEAN : genre_update_post_update(r, ok)

\* the steps of the handlers that only read
Display(r) ==
  \/ genre_list(r)
  \/ \E ok \in BOOLEAN : genre_list_exec(r, ok)
  \/ \E id \in Ids : genre_detail(r, id)
  \/ \E ok \in BOOLEAN : genre_detail_genre(r, ok)
  \/ \E ok \in BOOLEAN : genre_detail_genre_books(r, ok)
  \/ genre_create_get(r)
  \/ \E id \in Ids : genre_delete_get(r, id)
  \/ \E ok \in BOOLEAN : genre_delete_get_genre(r, ok)
  \/ \E ok \in BOOLEAN : genre_delete_get_genres_books(r, ok)
  \/ \E id \in Ids : genre_update_get(r, id)
  \/ \E ok \in BOOLEAN : genre_update_get_genre(r, ok)

Step(r) == Display(r) \/ CreateSubmit(r) \/ DeleteSubmit(r) \/ UpdateSubmit(r)

Env == \E g \in Ids : BookInsert(g)

\* requests served one after the other
Next == Step(1) \/ Env

Spec == Init /\ [][Next]_vars

\* create-submits and delete-submits in flight together, their store calls
\* interleaved with each other and with the environment
NextConc == (\E r \in Slots : CreateSubmit(r) \/ DeleteSubmit(r)) \/ Env

SpecConc == Init /\ [][NextConc]_vars

\* ================================================================ claims

\* C1: a delete-submit that reads at least one Book referencing its Genre id
\* (both reads succeeding) never removes the Genre: no step of the request
\* changes the Genre collection, the Books it holds are exactly the Books
\* referencing the id when it read them, and its single response is the
\* genre_delete view carrying the Genre of that id and those Books.
C1_DeleteBlocked ==
  /\ [](\A r \in Slots :
         LET q == reqs[r]
         IN (q.handler = "genre_delete_post" /\ q.genre_books # {})
            => /\ q.pc # "findByIdAndRemove"
               /\ (q.pc = "done" /\ q.nexts = << >>)
                  => /\ Len(q.responses) = 1
                     /\ q.responses[1].kind = "render"
                     /\ q.responses[1].view = "genre_delete"
                     /\ q.responses[1].genre_books = q.genre_books
                     /\ q.responses[1].genre =
                          (IF q.id \in DOMAIN genres
                           THEN [id |-> q.id, name |-> genres[q.id]] ELSE Null))
  /\ [][\A r \in Slots :
          (reqs[r].handler = "genre_delete_post" /\ reqs[r].pc # "done"
             /\ reqs'[r].handler = "genre_delete_post" /\ reqs'[r].genre_books # {})
          => /\ genres' = genres
             /\ ("genres_books" \in reqs[r].pending
                   => reqs'[r].genre_books = {b \in books : b.genre = reqs[r].id})]_vars

\* a delete-submit of a Genre in the store was answered with the confirmation view
C1_Witness ==
  \E r \in Slots :
    /\ reqs[r].handler = "genre_delete_post" /\ reqs[r].pc = "done"
    /\ reqs[r].id \in DOMAIN genres
    /\ reqs[r].genre_books # {}
    /\ Len(reqs[r].responses) = 1 /\ reqs[r].responses[1].view = "genre_delete"

\* C2 (as stated): no two distinct Genres in the store have the same name.
C2_UniqueNames ==
  \A i, j \in DOMAIN genres : i # j => genres[i] # genres[j]

\* C2 (amended): with requests served one after the other, every step except
\* the store write of an update-submit keeps Genre names unique; so the names
\* are unique in every state reached by create-submits and delete-submits.
C2_UniqueButForUpdate ==
  [][(/\ \A i, j \in DOMAIN genres : i # j => genres[i] # genres[j]
      /\ ~ \E r \in Slots : /\ reqs[r].handler = "genre_update_post"
                            /\ reqs[r].pc = "findByIdAndUpdate"
                            /\ reqs'[r].pc = "done")
     => \A i, j \in DOMAIN genres' : i # j => genres'[i] # genres'[j]]_vars

\* two Genres of different names are in the store and a create-submit of a
\* name already there was redirected to the Genre that has it
C2_Witness ==
  /\ Cardinality(DOMAIN genres) = 2
  /\ \A i, j \in DOMAIN genres : i # j => genres[i] # genres[j]
  /\ \E r \in Slots :
       /\ reqs[r].handler = "genre_create_post" /\ reqs[r].pc = "done"
       /\ reqs[r].found # Null
       /\ Len(reqs[r].responses) = 1

\* C3 (as stated): every Genre in the store has a name of length at least 2
\* after trimming.
C3_NamesLongEnough ==
  \A i \in DOMAIN genres : Len(Trim(genres[i])) >= 2

\* C4 (as stated): an update-submit whose raw name passes validation writes
\* the trimmed, then escaped, form of the raw name to the store.
C4_UpdateSanitizes ==
  \A r \in Slots :
    LET q == reqs[r]
    IN (/\ q.handler = "genre_update_post" /\ q.pc = "done"
        /\ Len(Trim(q.raw)) >= 2
        /\ q.nexts = << >> /\ Len(q.responses) = 1 /\ q.responses[1].kind = "redirect"
        /\ q.id \in DOMAIN genres)
       => genres[q.id] = Escape(Trim(q.raw))

\* C5 (as stated): a create-submit or update-submit whose name is shorter than
\* 2 after trimming is over at once, with the genre_form view carrying the
\* candidate Genre and a non-empty error list as its one response, with no
\* store call and the store unchanged; a name of length exactly 2 after
\* trimming has no validation error.
C5_ShortNameRejected ==
  /\ [](\A r \in Slots :
         LET q == reqs[r]
         IN (q.handler \in {"genre_create_post", "genre_update_post"})
            => /\ (Len(Trim(q.raw)) < 2)
                  => /\ q.pc = "done"
                     /\ q.nexts = << >>
                     /\ Len(q.responses) = 1
                     /\ q.responses[1].kind = "render"
                     /\ q.responses[1].view = "genre_form"
                     /\ q.responses[1].genre = q.genre
                     /\ q.responses[1].errors # << >>
               /\ (Len(Trim(q.raw)) = 2) => q.errors = << >>)
  /\ [][\A r \in Slots :
          (/\ reqs'[r].handler \in {"genre_create_post", "genre_update_post"}
           /\ Len(Trim(reqs'[r].raw)) < 2
           /\ reqs'[r] # reqs[r])
          => genres' = genres]_vars

\* C6 (as stated): a request never has more than one outcome, and a request
\* that is over has exactly one: one response or one propagated error.
C6_ExactlyOneOutcome ==
  \A r \in Slots :
    LET q == reqs[r]
    IN /\ Len(q.responses) + Len(q.nexts) <= 1
       /\ (q.handler # "idle" /\ q.pc = "done")
          => Len(q.responses) + Len(q.nexts) = 1

\* C7: the store write of an update-submit (name valid, id in the store, the
\* store call succeeding) keeps the set of Genre ids, puts the name of the
\* request under the original id, leaves every other Genre as it was, and the
\* one response is the redirect to the detail location of that id.
C7_UpdateKeepsId ==
  [][\A r \in Slots :
       (/\ reqs[r].handler = "genre_update_post"
        /\ reqs[r].pc = "findByIdAndUpdate"
        /\ reqs'[r].pc = "done" /\ reqs'[r].nexts = << >>
        /\ Len(Trim(reqs[r].raw)) >= 2
        /\ reqs[r].id \in DOMAIN genres)
       => /\ DOMAIN genres' = DOMAIN genres
          /\ genres'[reqs[r].id] = reqs[r].genre.name
          /\ \A i \in DOMAIN genres \ {reqs[r].id} : genres'[i] = genres[i]
          /\ Len(reqs'[r].responses) = 1
          /\ reqs'[r].responses[1].kind = "redirect"
          /\ reqs'[r].responses[1].location = <<"catalog", "genre", reqs[r].id>>]_vars

\* an update-submit renamed one of two Genres and was redirected
C7_Witness ==
  \E r \in Slots :
    /\ reqs[r].handler = "genre_update_post" /\ reqs[r].pc = "done"
    /\ Len(Trim(reqs[r].raw)) >= 2
    /\ Cardinality(DOMAIN genres) = 2
    /\ reqs[r].id \in DOMAIN genres
    /\ reqs[r].found # Null /\ reqs[r].found.name # reqs[r].genre.name
    /\ genres[reqs[r].id] = reqs[r].genre.name
    /\ Len(reqs[r].responses) = 1 /\ reqs[r].responses[1].kind = "redirect"

\* C8: a create-submit whose name is valid and whose trimmed, escaped form is
\* the name of a Genre in the store inserts nothing (its lookup succeeding,
\* no step of it changes the Genre collection and it never comes to save) and
\* is redirected to the detail location of a Genre of that name; a name held
\* by exactly one Genre is still held by exactly one after each of its steps.
C8_CreateExistingName ==
  [][\A r \in Slots :
       LET name == Escape(Trim(reqs[r].raw))
       IN (/\ reqs[r].handler = "genre_create_post"
           /\ reqs[r].pc = "findOne"
           /\ reqs'[r] # reqs[r]
           /\ \E i \in DOMAIN genres : genres[i] = name)
          => /\ genres' = genres
             /\ reqs'[r].pc = "done"
             /\ Cardinality({i \in DOMAIN genres : genres[i] = name}) = 1
                  => Cardinality({i \in DOMAIN genres' : genres'[i] = name}) = 1
             /\ reqs'[r].nexts = << >>
                  => /\ Len(reqs'[r].responses) = 1
                     /\ reqs'[r].responses[1].kind = "redirect"
                     /\ \E i \in DOMAIN genres :
                          /\ genres[i] = name
                          /\ reqs'[r].responses[1].location = <<"catalog", "genre", i>>]_vars

\* a create-submit of a name that needed trimming or escaping, and that a
\* Genre in the store has, was redirected to that Genre
C8_Witness ==
  \E r \in Slots :
    /\ reqs[r].handler = "genre_create_post" /\ reqs[r].pc = "done"
    /\ reqs[r].raw # reqs[r].genre.name
    /\ reqs[r].found # Null
    /\ reqs[r].found.id \in DOMAIN genres
    /\ genres[reqs[r].found.id] = reqs[r].genre.name
    /\ Cardinality({i \in DOMAIN genres : genres[i] = reqs[r].genre.name}) = 1
    /\ reqs[r].genre.id \notin DOMAIN genres
    /\ Len(reqs[r].responses) = 1
    /\ reqs[r].responses[1].location = <<"catalog", "genre", reqs[r].found.id>>

\* C9: a delete-submit that read no dependent Book (both reads succeeding)
\* comes to the delete; the delete (succeeding) removes exactly the Genre of
\* the id, leaves the others as they were, and the one response is the
\* redirect to the Genre list; the removed Genre never comes back; and a
\* detail request for the id of a removed Genre (its reads succeeding)
\* renders nothing and propagates the not-found error of status 404.
C9_DeleteThenNotFound ==
  /\ [](/\ removed \cap DOMAIN genres = {}
        /\ \A r \in Slots :
             LET q == reqs[r]
             IN /\ (/\ q.handler = "genre_delete_post" /\ q.pending = {}
                    /\ q.nexts = << >> /\ q.genre_books = {})
                   => \/ q.pc = "findByIdAndRemove"
                      \/ /\ q.pc = "done"
                         /\ q.id \notin DOMAIN genres
                         /\ Len(q.responses) = 1
                         /\ q.responses[1].kind = "redirect"
                         /\ q.responses[1].location = <<"catalog", "genres">>
                /\ (/\ q.handler = "genre_detail" /\ q.pc = "done"
                    /\ q.id \in removed /\ q.nexts # <<StoreError>>)
                   => /\ q.responses = << >>
                      /\ Len(q.nexts) = 1
                      /\ q.nexts[1].status = 404)
  /\ [][\A r \in Slots :
          (/\ reqs[r].handler = "genre_delete_post"
           /\ reqs[r].pc = "findByIdAndRemove"
           /\ reqs'[r].pc = "done" /\ reqs'[r].nexts = << >>)
          => /\ DOMAIN genres' = DOMAIN genres \ {reqs[r].id}
             /\ \A i \in DOMAIN genres' : genres'[i] = genres[i]
             /\ (reqs[r].id \in DOMAIN genres => reqs[r].id \in removed')]_vars

\* a Genre was created and then removed by a delete-submit, and a detail
\* request for its id has propagated the not-found error
C9_Witness ==
  \E r \in Slots :
    /\ reqs[r].handler = "genre_detail" /\ reqs[r].pc = "done"
    /\ reqs[r].id \in removed
    /\ reqs[r].responses = << >>
    /\ reqs[r].nexts = <<NotFound>>

\* C10: a create-submit whose raw name has length at least 2 after trimming
\* has no validation error; when its lookup finds no Genre of the trimmed,
\* escaped name it comes to save; the save (succeeding) adds exactly one
\* Genre, under a new id, named by the trimmed then escaped raw name, and the
\* one response is the redirect to the detail location of that id; and a
\* detail request for an id in the store (its reads succeeding) renders the
\* Genre of that id with its name.
C10_CreateThenDetail ==
  /\ [](\A r \in Slots :
         LET q == reqs[r]
         IN /\ (q.handler = "genre_create_post" /\ Len(Trim(q.raw)) >= 2)
               => /\ q.errors = << >>
                  /\ q.genre.name = Escape(Trim(q.raw))
            /\ (/\ q.handler = "genre_detail" /\ q.pc = "done"
                /\ q.id \in DOMAIN genres /\ q.nexts # <<StoreError>>)
               => /\ q.nexts = << >>
                  /\ Len(q.responses) = 1
                  /\ q.responses[1].view = "genre_detail"
                  /\ q.responses[1].genre = [id |-> q.id, name |-> genres[q.id]])
  /\ [][\A r \in Slots :
          LET name == Escape(Trim(reqs[r].raw))
          IN /\ (/\ reqs[r].handler = "genre_create_post"
                 /\ reqs[r].pc = "findOne"
                 /\ reqs'[r] # reqs[r] /\ reqs'[r].nexts = << >>
                 /\ ~ \E i \in DOMAIN genres : genres[i] = name)
                => reqs'[r].pc = "save"
             /\ (/\ reqs[r].handler = "genre_create_post"
                 /\ reqs[r].pc = "save"
                 /\ reqs'[r].pc = "done" /\ reqs'[r].nexts = << >>)
                => \E id \in DOMAIN genres' \ DOMAIN genres :
                     /\ DOMAIN genres' = DOMAIN genres \cup {id}
                     /\ genres'[id] = name
                     /\ \A i \in DOMAIN genres : genres'[i] = genres[i]
                     /\ Len(reqs'[r].responses) = 1
                     /\ reqs'[r].responses[1].kind = "redirect"
                     /\ reqs'[r].responses[1].location = <<"catalog", "genre", id>>
                     /\ ParamId(reqs'[r].responses[1].location) = id]_vars

\* a create-submit of a name that needed both trimming and escaping has
\* inserted its Genre next to another one
C10_Witness ==
  \E r \in Slots :
    LET q == reqs[r]
    IN /\ q.handler = "genre_create_post" /\ q.pc = "done"
       /\ Len(q.responses) = 1 /\ q.responses[1].kind = "redirect"
       /\ q.found = Null
       /\ Trim(q.raw) # q.raw /\ Escape(Trim(q.raw)) # Trim(q.raw)
       /\ q.genre.id \in DOMAIN genres
       /\ genres[q.genre.id] = Escape(Trim(q.raw))
       /\ Cardinality(DOMAIN genres) = 2

\* C11: a detail request or an update-display request for an id that is not
\* in the Genre store, no store read of it failing, has rendered nothing and
\* has propagated one error, the not-found error of status 404.
C11_MissingIsNotFound ==
  \A r \in Slots :
    LET q == reqs[r]
    IN (/\ q.handler \in {"genre_detail", "genre_update_get"}
        /\ q.pc = "done"
        /\ q.id \notin DOMAIN genres
        /\ q.nexts # <<StoreError>>)
       => /\ q.responses = << >>
          /\ q.nexts = <<[message |-> "Genre not found", status |-> 404]>>

\* an update-display request for the id of a Genre that is no longer in the
\* store has propagated the not-found error
C11_Witness ==
  \E r \in Slots :
    /\ reqs[r].handler = "genre_update_get" /\ reqs[r].pc = "done"
    /\ reqs[r].id \in removed
    /\ reqs[r].responses = << >>
    /\ Len(reqs[r].nexts) = 1 /\ reqs[r].nexts[1].status = 404

\* C12: when a store call of a request fails, that step ends the request with
\* the store error propagated, nothing rendered or redirected and the Genre
\* collection as it was; and a request that has propagated a store error is
\* over, with that error as its only outcome, so that it issues no later
\* store call.
C12_StoreErrorEndsRequest ==
  /\ [](\A r \in Slots :
         LET q == reqs[r]
         IN (\E i \in 1 .. Len(q.nexts) : q.nexts[i] = StoreError)
            => /\ q.pc = "done"
               /\ q.pending = {}
               /\ q.responses = << >>
               /\ q.nexts = <<StoreError>>
               /\ ~q.thrown)
  /\ [][\A r \in Slots :
          (\/ genre_list_exec(r, FALSE)
           \/ genre_detail_genre(r, FALSE)
           \/ genre_detail_genre_books(r, FALSE)
           \/ genre_create_post_findOne(r, FALSE)
           \/ genre_create_post_save(r, FALSE)
           \/ genre_delete_get_genre(r, FALSE)
           \/ genre_delete_get_genres_books(r, FALSE)
           \/ genre_delete_post_genre(r, FALSE)
           \/ genre_delete_post_genres_books(r, FALSE)
           \/ genre_delete_post_remove(r, FALSE)
           \/ genre_update_get_genre(r, FALSE)
           \/ genre_update_post_update(r, FALSE))
          => /\ reqs'[r].pc = "done"
             /\ reqs'[r].responses = << >>
             /\ reqs'[r].nexts = <<StoreError>>
             /\ genres' = genres
             /\ books' = books]_vars

\* the delete of a delete-submit failed: the error is propagated, nothing is
\* sent and the Genre it had read is still in the store
C12_Witness ==
  \E r \in Slots :
    /\ reqs[r].handler = "genre_delete_post" /\ reqs[r].pc = "done"
    /\ reqs[r].found # Null /\ reqs[r].id \in DOMAIN genres
    /\ reqs[r].responses = << >>
    /\ reqs[r].nexts = <<StoreError>>

\* C13: a list request whose find succeeded has rendered the view genre_list
\* once, with a list that holds every Genre of the store exactly once, under
\* its name, in ascending order of name, in whatever order the Genres were
\* created.
C13_ListSortedAndComplete ==
  \A r \in Slots :
    LET q == reqs[r]
    IN (q.handler = "genre_list" /\ q.pc = "done" /\ q.nexts = << >>)
       => /\ Len(q.responses) = 1
          /\ q.responses[1].kind = "render"
          /\ q.responses[1].view = "genre_list"
          /\ LET l == q.responses[1].genre_list
             IN /\ Len(l) = Cardinality(DOMAIN genres)
                /\ \A id \in DOMAIN genres :
                     Cardinality({i \in 1 .. Len(l) : l[i].id = id}) = 1
                /\ \A i \in 1 .. Len(l) :
                     l[i].id \in DOMAIN genres /\ l[i].name = genres[l[i].id]
                /\ \A i \in 1 .. Len(l) - 1 : NameLeq(l[i].name, l[i + 1].name)

\* a list rendered with two Genres of different names, the later created first
C13_Witness ==
  \E r \in Slots :
    /\ reqs[r].handler = "genre_list" /\ reqs[r].pc = "done"
    /\ Len(reqs[r].responses) = 1
    /\ LET l == reqs[r].responses[1].genre_list
       IN /\ Len(l) = 2
          /\ l[1].name # l[2].name
          /\ l[1].id > l[2].id

\* C14: no step of any handler changes the Book collection: a step in which a
\* request starts or advances leaves the set of Books as it was.
C14_BooksUntouched ==
  [][(\E r \in Slots : reqs'[r] # reqs[r]) => books' = books]_vars

\* a delete-submit has removed its Genre and redirected, and the Book that the
\* environment inserted is still in the collection
C14_Witness ==
  \E r \in Slots :
    /\ reqs[r].handler = "genre_delete_post" /\ reqs[r].pc = "done"
    /\ reqs[r].id \in removed /\ reqs[r].id \notin DOMAIN genres
    /\ Len(reqs[r].responses) = 1
    /\ books # {}

\* C15: the check and the insert of a create-submit are separate store calls:
\* a create-submit that has reached its save, the save succeeding, inserts its
\* Genre and redirects to it whatever the store holds by then, a Genre of the
\* same name included; so two create-submits of one valid name in flight
\* together may both insert.
C15_SaveInsertsRegardless ==
  [][\A r \in Slots :
       (/\ reqs[r].handler = "genre_create_post" /\ reqs[r].pc = "save"
        /\ reqs'[r] # reqs[r]
        /\ reqs'[r].nexts = << >>)
       => /\ reqs[r].genre.id \in DOMAIN genres'
          /\ genres'[reqs[r].genre.id] = reqs[r].genre.name
          /\ \A i \in DOMAIN genres : i \in DOMAIN genres' /\ genres'[i] = genres[i]
          /\ Len(reqs'[r].responses) = 1
          /\ reqs'[r].responses[1].kind = "redirect"
          /\ reqs'[r].responses[1].location[3] = reqs[r].genre.id]_vars

\* two create-submits of the same valid name have both inserted: each has
\* redirected to its own Genre, and the store holds both under that name
C15_Witness ==
  LET q1 == reqs[1]
      q2 == reqs[2]
  IN /\ q1.handler = "genre_create_post" /\ q2.handler = "genre_create_post"
     /\ q1.pc = "done" /\ q2.pc = "done"
     /\ q1.errors = << >> /\ q2.errors = << >>
     /\ q1.nexts = << >> /\ q2.nexts = << >>
     /\ Len(q1.responses) = 1 /\ Len(q2.responses) = 1
     /\ q1.responses[1].location[3] = q1.genre.id
     /\ q2.responses[1].location[3] = q2.genre.id
     /\ q1.genre.id # q2.genre.id
     /\ q1.genre.name = q2.genre.name
     /\ Len(q1.genre.name) >= 2
     /\ q1.genre.id \in DOMAIN genres /\ q2.genre.id \in DOMAIN genres
     /\ genres[q1.genre.id] = genres[q2.genre.id]

\* C16: the check and the delete of a delete-submit are separate store calls:
\* a delete-submit that has read no Book and has reached its delete, the
\* delete succeeding, removes its Genre and redirects whatever Books
\* reference the id by then, and leaves those Books in place; so a Book
\* inserted between the read and the delete ends up referencing an id that
\* is not in the Genre store.
C16_RemoveIgnoresLaterBooks ==
  [][\A r \in Slots :
       (/\ reqs[r].handler = "genre_delete_post"
        /\ reqs[r].pc = "findByIdAndRemove"
        /\ reqs'[r] # reqs[r]
        /\ reqs'[r].nexts = << >>)
       => /\ reqs[r].genre_books = {}
          /\ reqs[r].id \notin DOMAIN genres'
          /\ \A b \in books : b.genre = reqs[r].id => b \in books'
          /\ Len(reqs'[r].responses) = 1
          /\ reqs'[r].responses[1].kind = "redirect"]_vars

\* a delete-submit found its Genre, read no Book, and removed the Genre, and
\* a Book inserted in between references the removed id
C16_Witness ==
  \E r \in Slots :
    /\ reqs[r].handler = "genre_delete_post" /\ reqs[r].pc = "done"
    /\ reqs[r].found # Null /\ reqs[r].genre_books = {}
    /\ reqs[r].nexts = << >> /\ Len(reqs[r].responses) = 1
    /\ reqs[r].id \in removed /\ reqs[r].id \notin DOMAIN genres
    /\ \E b \in books : b.genre = reqs[r].id

\* C17: the handlers that only display (list, detail, create-display,
\* delete-display, update-display) never modify the Genre store: a step in
\* which such a request starts or advances leaves the Genre collection as it
\* was.
C17_DisplayHandlersReadOnly ==
  [][\A r \in Slots :
       (/\ reqs'[r] # reqs[r]
        /\ reqs'[r].handler \in {"genre_list", "genre_detail", "genre_create_get",
                                 "genre_delete_get", "genre_update_get"})
       => genres' = genres]_vars

\* a delete-display has found its Genre and rendered the delete page, and the
\* Genre is in the store as it was read
C17_Witness ==
  \E r \in Slots :
    /\ reqs[r].handler = "genre_delete_get" /\ reqs[r].pc = "done"
    /\ reqs[r].found # Null /\ reqs[r].nexts = << >>
    /\ Len(reqs[r].responses) = 1 /\ reqs[r].responses[1].view = "genre_delete"
    /\ reqs[r].id \in DOMAIN genres
    /\ genres[reqs[r].id] = reqs[r].found.name

\* C18: a delete-submit for an id that is not in the Genre store, having read
\* no Book referencing it and no store call of it failing, ends with one
\* redirect to the Genre list and no error, not-found included; and its
\* delete leaves the Genre store as it was, so that repeating a successful
\* delete-submit changes nothing.
C18_DeleteMissingIsNoOp ==
  /\ [](\A r \in Slots :
         LET q == reqs[r]
         IN (/\ q.handler = "genre_delete_post" /\ q.pc = "done"
             /\ q.found = Null /\ q.genre_books = {}
             /\ q.nexts # <<StoreError>>)
            => /\ q.nexts = << >>
               /\ ~q.thrown
               /\ Len(q.responses) = 1
               /\ q.responses[1].kind = "redirect"
               /\ q.responses[1].location = <<"catalog", "genres">>)
  /\ [][\A r \in Slots :
          (/\ reqs[r].handler = "genre_delete_post"
           /\ reqs'[r] # reqs[r]
           /\ reqs[r].id \notin DOMAIN genres)
          => genres' = genres /\ removed' = removed]_vars

\* a delete-submit repeated for the id that a delete-submit has removed: it
\* found no Genre and no Book, and redirected to the Genre list
C18_Witness ==
  \E r \in Slots :
    /\ reqs[r].handler = "genre_delete_post" /\ reqs[r].pc = "done"
    /\ reqs[r].id \in removed
    /\ reqs[r].found = Null /\ reqs[r].genre_books = {}
    /\ reqs[r].nexts = << >>
    /\ Len(reqs[r].responses) = 1
    /\ reqs[r].responses[1].location = <<"catalog", "genres">>

====
